---- MODULE Spec2Model ----
(***************************************************************************)
(* Model of src/Minesweeper/minesweeper.py: the Minesweeper board, the     *)
(* Sentence class and the knowledge base of MinesweeperAI (add_knowledge,  *)
(* add_sentence, clean_knowledge, mark_mine, mark_safe).                   *)
(*                                                                         *)
(* A call of add_knowledge is modelled as a sequence of steps so that the  *)
(* states inside a propagation pass are visible: the call itself (lines    *)
(* 295-303), then for every pass of the `while True` loop of               *)
(* clean_knowledge the collection of known cells (237-247), one step per   *)
(* MinesweeperAI.mark_safe / mark_mine call (248-253), the loop removing   *)
(* empty sentences (256-258), one step per sentence appended by the        *)
(* subset loop (259-271) and the test that ends the pass (272-273).        *)
(***************************************************************************)
EXTENDS Integers, Sequences, FiniteSets, TLC

\* Board dimensions (MinesweeperAI(height, width)) and the largest number of
\* mines placed on a board (Minesweeper(height, width, mines)).
Height == 2
Width == 3
MaxMines == 1
\* Number of add_knowledge calls in one run.
MaxCalls == 3
\* The same two bounds for the runs on boards with more mines (WideSpec).
MaxWideMines == 2
MaxWideCalls == 2
\* Runs with untruthful counts (LieSpec): number of add_knowledge calls, and
\* the length of the sentence list beyond which the subset loop is cut off.
MaxLieCalls == 2
MaxLieSentences == 5
MaxUnitCalls == 2

VARIABLES
    board,          \* Minesweeper.mines: the cells that really hold a mine
    moves_made,     \* MinesweeperAI.moves_made
    mines,          \* MinesweeperAI.mines
    safes,          \* MinesweeperAI.safes
    knowledge,      \* MinesweeperAI.knowledge: a list of sentences
    pc,             \* position inside add_knowledge / clean_knowledge
    op,             \* the method running, or the last one that returned
    safe_cells,     \* clean_knowledge local
    mine_cells,     \* clean_knowledge local
    pending,        \* cells the current `for c in ...` loop has still to visit
    made_changes,   \* clean_knowledge local
    i, j,           \* positions of the two loops over self.knowledge (1-based)
    calls,          \* number of add_knowledge calls made so far
    arg,            \* <<cell, count>> of the running / last add_knowledge call
    repeat,         \* the running / last add_knowledge call named a cell of moves_made
    pre,            \* mines, safes, moves_made, knowledge when the running method was called
    ret             \* what the last make_safe_move / make_random_move call returned

vars == <<board, moves_made, mines, safes, knowledge, pc, op, safe_cells,
          mine_cells, pending, made_changes, i, j, calls, arg, repeat, pre, ret>>

----------------------------------------------------------------------------
\* Board geometry

Cells == (0 .. Height - 1) \X (0 .. Width - 1)

\* The python None.
None == "None"

Abs(x) == IF x < 0 THEN -x ELSE x

\* The in-bounds cells within one row and column of cell, cell excluded.
Neighbors(cell) ==
    {c \in Cells : c # cell /\ Abs(c[1] - cell[1]) <= 1 /\ Abs(c[2] - cell[2]) <= 1}

\* Minesweeper.nearby_mines
nearby_mines(b, cell) == Cardinality(Neighbors(cell) \cap b)

\* Minesweeper.is_mine
is_mine(b, cell) == cell \in b

----------------------------------------------------------------------------
\* Sentence

Sentence(cells, count) == [cells |-> cells, count |-> count]

\* Sentence.__eq__ with another sentence
SentenceEq(s, other) == s.cells = other.cells /\ s.count = other.count

\* Sentence.__eq__ with an int: compares the size of the cell set
SentenceEqInt(s, other) == Cardinality(s.cells) = other

\* Mutant: every cell of a sentence with a positive count is taken for a mine.
known_mines_positive(s) == IF s.count >= 1 THEN s.cells ELSE {}

known_mines(s) == IF s.count = Cardinality(s.cells) THEN s.cells ELSE {}

known_safes(s) == IF s.count = 0 THEN s.cells ELSE {}

\* Mutant: the cell is removed but the count is not decremented.
SentenceMarkMine_keepcount(s, cell) ==
    IF cell \in s.cells
    THEN [cells |-> s.cells \ {cell}, count |-> s.count]
    ELSE s

SentenceMarkMine(s, cell) ==
    IF cell \in s.cells
    THEN [cells |-> s.cells \ {cell}, count |-> s.count - 1]
    ELSE s

\* Mutant: removing a safe cell decrements the count as well.
SentenceMarkSafe_decrement(s, cell) ==
    IF cell \in s.cells
    THEN [cells |-> s.cells \ {cell}, count |-> s.count - 1]
    ELSE s

SentenceMarkSafe(s, cell) ==
    IF cell \in s.cells
    THEN [cells |-> s.cells \ {cell}, count |-> s.count]
    ELSE s

----------------------------------------------------------------------------
\* MinesweeperAI helpers

\* Mutant: the sentences are not told about the mine.
KnowledgeMarkMine_none(k, cell) == k

\* `for sentence in self.knowledge: sentence.mark_mine(cell)`
KnowledgeMarkMine(k, cell) == [n \in DOMAIN k |-> SentenceMarkMine(k[n], cell)]

\* `for sentence in self.knowledge: sentence.mark_safe(cell)`
KnowledgeMarkSafe(k, cell) == [n \in DOMAIN k |-> SentenceMarkSafe(k[n], cell)]

\* Mutant: the count is not reduced by the known mines around the cell.
add_sentence_keepcount(mi, sa, mo, cell, count) ==
    Sentence({c \in Neighbors(cell) : c \notin mi /\ c \notin sa /\ c \notin mo},
             count)

\* Mutant: the known safe and visited neighbours are not left out.
add_sentence_keepsafes(mi, sa, mo, cell, count) ==
    Sentence({c \in Neighbors(cell) : c \notin mi},
             count - Cardinality(Neighbors(cell) \cap mi))

\* The sentence add_sentence builds around cell from the sets mi (mines),
\* sa (safes) and mo (moves_made).
add_sentence(mi, sa, mo, cell, count) ==
    Sentence({c \in Neighbors(cell) : c \notin mi /\ c \notin sa /\ c \notin mo},
             count - Cardinality(Neighbors(cell) \cap mi))

\* `x in self.knowledge`
InKnowledge(k, x) == \E n \in DOMAIN k : SentenceEq(k[n], x)

\* list.remove(x): drops the first element equal to x
ListRemove(k, x) ==
    LET first == CHOOSE n \in DOMAIN k :
                     /\ SentenceEq(k[n], x)
                     /\ \A m \in 1 .. n - 1 : ~SentenceEq(k[m], x)
    IN  [n \in 1 .. Len(k) - 1 |-> IF n < first THEN k[n] ELSE k[n + 1]]

\* `for sentence1 in self.knowledge: if sentence1 == 0: self.knowledge.remove(sentence1)`
\* The list iterator keeps a position; a removal shifts the rest of the list
\* under it.
RECURSIVE RemoveEmpty(_, _)
RemoveEmpty(k, pos) ==
    IF pos > Len(k) THEN k
    ELSE IF SentenceEqInt(k[pos], 0)
         THEN RemoveEmpty(ListRemove(k, k[pos]), pos + 1)
         ELSE RemoveEmpty(k, pos + 1)

\* Mutant: the count of the smaller sentence is not subtracted.
Difference_keepcount(sentence1, sentence2) ==
    Sentence(sentence2.cells \ sentence1.cells, sentence2.count)

\* The sentence the subset loop builds from sentence1 and sentence2.
Difference(sentence1, sentence2) ==
    Sentence(sentence2.cells \ sentence1.cells, sentence2.count - sentence1.count)

\* The body of the two loops at positions (a, b) appends a sentence.
Appends(k, a, b) ==
    /\ ~SentenceEq(k[a], k[b])
    /\ k[a].cells \subseteq k[b].cells
    /\ ~InKnowledge(k, Difference(k[a], k[b]))

\* Mutant: the inner loop only visits the sentences after the outer one.
RECURSIVE NextAppend_laterOnly(_, _, _)
NextAppend_laterOnly(k, a, b) ==
    IF a > Len(k) THEN <<0, 0>>
    ELSE IF b > Len(k) THEN NextAppend_laterOnly(k, a + 1, 1)
    ELSE IF b > a /\ Appends(k, a, b) THEN <<a, b>>
    ELSE NextAppend_laterOnly(k, a, b + 1)

\* The first position at or after (a, b), in the order of the two loops, whose
\* body appends a sentence; <<0, 0>> when the loops end without appending.
RECURSIVE NextAppend(_, _, _)
NextAppend(k, a, b) ==
    IF a > Len(k) THEN <<0, 0>>
    ELSE IF b > Len(k) THEN NextAppend(k, a + 1, 1)
    ELSE IF Appends(k, a, b) THEN <<a, b>>
    ELSE NextAppend(k, a, b + 1)

\* The cells collected by the first loop of a pass.
CollectSafes(k) == UNION {known_safes(k[n]) : n \in DOMAIN k}
CollectMines(k) == UNION {known_mines(k[n]) : n \in DOMAIN k}

\* The guards of the two marking loops of a pass (lines 246 and 250).
SafeGuard(sc, mc) == sc # {}
MineGuard(sc, mc) == sc # {}

\* Mutant: made_changes is set in every pass.
MarkingMadeChanges_always(sc, mc) == TRUE

\* made_changes after the two marking loops (lines 235, 247 and 251).
MarkingMadeChanges(sc, mc) == SafeGuard(sc, mc) \/ MineGuard(sc, mc)

\* Mutant: appending a sentence does not set made_changes.
AppendMadeChanges_forgotten(before) == before

\* made_changes after the subset loop has appended a sentence (line 271).
AppendMadeChanges(before) == TRUE

\* Mutant: a visited safe cell may be returned again.
make_safe_move_visited(sa, mo) == IF sa = {} THEN {None} ELSE sa

\* make_safe_move: the values it can return, the first cell of self.safes (a
\* set, iterated in no particular order) that is not in self.moves_made, or
\* None.
make_safe_move(sa, mo) ==
    IF \E cell \in sa : cell \notin mo
    THEN {cell \in sa : cell \notin mo}
    ELSE {None}

\* Mutant: the known mines are not left out.
make_random_move_mines(mo, mi) ==
    LET possible_cells == {try_cell \in Cells : try_cell \notin mo}
    IN  IF possible_cells # {} THEN possible_cells ELSE {None}

\* make_random_move: the values it can return, random.choice of the cells
\* neither visited nor known to be mines, or None.
make_random_move(mo, mi) ==
    LET possible_cells == {try_cell \in Cells : try_cell \notin mo /\ try_cell \notin mi}
    IN  IF possible_cells # {} THEN possible_cells ELSE {None}

----------------------------------------------------------------------------
\* State

Snapshot == [mines |-> mines, safes |-> safes, moves_made |-> moves_made,
             knowledge |-> knowledge]

Boards == {b \in SUBSET Cells : Cardinality(b) <= MaxMines}

\* No sentence yet, and no method running.
InitRest ==
    /\ knowledge = <<>>
    /\ pc = "idle"
    /\ op = "none"
    /\ safe_cells = {}
    /\ mine_cells = {}
    /\ pending = {}
    /\ made_changes = FALSE
    /\ i = 1
    /\ j = 1
    /\ calls = 0
    /\ arg = <<>>
    /\ repeat = FALSE
    /\ pre = [mines |-> {}, safes |-> {}, moves_made |-> {}, knowledge |-> <<>>]
    /\ ret = None

\* A new MinesweeperAI.
InitAI ==
    /\ moves_made = {}
    /\ mines = {}
    /\ safes = {}
    /\ InitRest

Init == board \in Boards /\ InitAI

\* add_knowledge(cell, count), lines 295-303; clean_knowledge follows.
Observe(cell, count) ==
    LET mo == moves_made \cup {cell}
        sa == safes \cup {cell}
        k1 == KnowledgeMarkSafe(knowledge, cell)
    IN  /\ pc = "idle"
        /\ calls < MaxCalls
        /\ pre' = Snapshot
        /\ repeat' = (cell \in moves_made)
        /\ arg' = <<cell, count>>
        /\ calls' = calls + 1
        /\ op' = "add_knowledge"
        /\ moves_made' = mo
        /\ safes' = sa
        /\ knowledge' = Append(k1, add_sentence(mines, sa, mo, cell, count))
        /\ pc' = "pass"
        /\ UNCHANGED <<board, mines, safe_cells, mine_cells, pending,
                       made_changes, i, j,
                   ret>>

\* add_knowledge for a cell the board reveals (not a mine) and its true count.
AddKnowledge(cell) ==
    /\ ~is_mine(board, cell)
    /\ Observe(cell, nearby_mines(board, cell))

\* A direct call of clean_knowledge right after add_knowledge has returned.
CleanKnowledge ==
    /\ pc = "idle"
    /\ op = "add_knowledge"
    /\ op' = "clean_knowledge"
    /\ pre' = Snapshot
    /\ pc' = "pass"
    /\ UNCHANGED <<board, moves_made, mines, safes, knowledge, safe_cells,
                   mine_cells, pending, made_changes, i, j, calls, arg, repeat,
                   ret>>

\* Mutant: the returned cell is taken out of safes.
MakeSafeMove_pop ==
    /\ pc = "idle"
    /\ \E cell \in make_safe_move(safes, moves_made) :
           /\ ret' = cell
           /\ safes' = IF cell = None THEN safes ELSE safes \ {cell}
    /\ op' = "make_safe_move"
    /\ pre' = Snapshot
    /\ UNCHANGED <<board, moves_made, mines, knowledge, pc, safe_cells,
                   mine_cells, pending, made_changes, i, j, calls, arg, repeat>>

\* A call of make_safe_move.
MakeSafeMove ==
    /\ pc = "idle"
    /\ ret' \in make_safe_move(safes, moves_made)
    /\ op' = "make_safe_move"
    /\ pre' = Snapshot
    /\ UNCHANGED <<board, moves_made, mines, safes, knowledge, pc, safe_cells,
                   mine_cells, pending, made_changes, i, j, calls, arg, repeat>>

\* A call of make_random_move.
MakeRandomMove ==
    /\ pc = "idle"
    /\ ret' \in make_random_move(moves_made, mines)
    /\ op' = "make_random_move"
    /\ pre' = Snapshot
    /\ UNCHANGED <<board, moves_made, mines, safes, knowledge, pc, safe_cells,
                   mine_cells, pending, made_changes, i, j, calls, arg, repeat>>

\* Lines 235-247 and the guard of line 250: the start of a pass.
Collect ==
    LET sc == CollectSafes(knowledge)
        mc == CollectMines(knowledge)
    IN  /\ pc = "pass"
        /\ safe_cells' = sc
        /\ mine_cells' = mc
        /\ made_changes' = MarkingMadeChanges(sc, mc)
        /\ IF SafeGuard(sc, mc)
           THEN pc' = "mark_safe" /\ pending' = sc
           ELSE IF MineGuard(sc, mc) /\ mc # {}
                THEN pc' = "mark_mine" /\ pending' = mc
                ELSE pc' = "remove" /\ pending' = {}
        /\ UNCHANGED <<board, moves_made, mines, safes, knowledge, op, i, j,
                       calls, arg, repeat, pre,
                   ret>>

\* One iteration of `for c in safe_cells: self.mark_safe(c)`.
MarkSafe(c) ==
    /\ pc = "mark_safe"
    /\ c \in pending
    /\ safes' = safes \cup {c}
    /\ knowledge' = KnowledgeMarkSafe(knowledge, c)
    /\ IF pending # {c}
       THEN pc' = pc /\ pending' = pending \ {c}
       ELSE IF MineGuard(safe_cells, mine_cells) /\ mine_cells # {}
            THEN pc' = "mark_mine" /\ pending' = mine_cells
            ELSE pc' = "remove" /\ pending' = {}
    /\ UNCHANGED <<board, moves_made, mines, op, safe_cells, mine_cells,
                   made_changes, i, j, calls, arg, repeat, pre,
                   ret>>

\* One iteration of `for c in mine_cells: self.mark_mine(c)`.
MarkMine(c) ==
    /\ pc = "mark_mine"
    /\ c \in pending
    /\ mines' = mines \cup {c}
    /\ knowledge' = KnowledgeMarkMine(knowledge, c)
    /\ pending' = pending \ {c}
    /\ pc' = IF pending = {c} THEN "remove" ELSE pc
    /\ UNCHANGED <<board, moves_made, safes, op, safe_cells, mine_cells,
                   made_changes, i, j, calls, arg, repeat, pre,
                   ret>>

\* Lines 256-258: the loop that removes the empty sentences.
Remove ==
    /\ pc = "remove"
    /\ knowledge' = RemoveEmpty(knowledge, 1)
    /\ i' = 1
    /\ j' = 1
    /\ pc' = "subset"
    /\ UNCHANGED <<board, moves_made, mines, safes, op, safe_cells, mine_cells,
                   pending, made_changes, calls, arg, repeat, pre,
                   ret>>

\* Lines 259-271: the two loops run on to the next sentence they append.
Infer ==
    LET at == NextAppend(knowledge, i, j)
    IN  /\ pc = "subset"
        /\ at # <<0, 0>>
        /\ knowledge' = Append(knowledge,
                               Difference(knowledge[at[1]], knowledge[at[2]]))
        /\ made_changes' = AppendMadeChanges(made_changes)
        /\ i' = at[1]
        /\ j' = at[2] + 1
        /\ UNCHANGED <<board, moves_made, mines, safes, pc, op, safe_cells,
                       mine_cells, pending, calls, arg, repeat, pre,
                   ret>>

\* Lines 272-273: the loops have ended; another pass, or return.
EndPass ==
    /\ pc = "subset"
    /\ NextAppend(knowledge, i, j) = <<0, 0>>
    /\ pc' = IF made_changes THEN "pass" ELSE "idle"
    /\ i' = 1
    /\ j' = 1
    /\ UNCHANGED <<board, moves_made, mines, safes, knowledge, op, safe_cells,
                   mine_cells, pending, made_changes, calls, arg, repeat, pre,
                   ret>>

\* The steps inside a running call.
Step ==
    \/ Collect
    \/ \E c \in Cells : MarkSafe(c)
    \/ \E c \in Cells : MarkMine(c)
    \/ Remove
    \/ Infer
    \/ EndPass

Next ==
    \/ \E cell \in Cells : AddKnowledge(cell)
    \/ CleanKnowledge
    \/ Step

Spec == Init /\ [][Next]_vars

\* A running call goes on: the program is sequential and nothing blocks.
FairSpec == Init /\ [][Next]_vars /\ WF_vars(Step)

\* Shorter runs on boards with up to MaxWideMines mines.
WideBoards == {b \in SUBSET Cells : Cardinality(b) <= MaxWideMines}

WideInit == board \in WideBoards /\ InitAI

WideNext ==
    \/ \E cell \in Cells : calls < MaxWideCalls /\ AddKnowledge(cell)
    \/ CleanKnowledge
    \/ MakeSafeMove
    \/ MakeRandomMove
    \/ Step

WideSpec == WideInit /\ [][WideNext]_vars

\* Runs in which the caller may pass any count from 0 to one more than the
\* number of neighbours.
LieCounts(cell) == 0 .. Cardinality(Neighbors(cell)) + 1

LieNext ==
    \/ \E cell \in Cells : \E count \in LieCounts(cell) :
           calls < MaxLieCalls /\ ~is_mine(board, cell) /\ Observe(cell, count)
    \/ Collect
    \/ \E c \in Cells : MarkSafe(c)
    \/ \E c \in Cells : MarkMine(c)
    \/ Remove
    \/ Len(knowledge) < MaxLieSentences /\ Infer
    \/ EndPass

LieSpec == Init /\ [][LieNext]_vars

\* Single calls of add_knowledge, make_safe_move and make_random_move on every
\* value of mines, safes and moves_made that is sound for the board (mines are
\* mines, safes are not) and has the visited cells among the safe ones.
UnitInit ==
    /\ board \in Boards
    /\ mines \in SUBSET board
    /\ safes \in SUBSET (Cells \ board)
    /\ moves_made \in SUBSET safes
    /\ (mines \cup safes # {} => moves_made # {})
    /\ InitRest

UnitNext ==
    \/ \E cell \in Cells : calls < MaxUnitCalls /\ AddKnowledge(cell)
    \/ MakeSafeMove
    \/ MakeRandomMove
    \/ Step

UnitSpec == UnitInit /\ [][UnitNext]_vars

----------------------------------------------------------------------------
\* Properties

Returned(method) == pc = "idle" /\ op = method

\* The sentence the last add_knowledge call appended, as built at the call.
BuiltSentence ==
    add_sentence(pre.mines, pre.safes \cup {arg[1]}, pre.moves_made \cup {arg[1]},
                 arg[1], arg[2])

\* C1: soundness. After every truthful add_knowledge call returns, every
\* cell of mines is a mine of the board and no cell of safes is.
C1_Soundness ==
    Returned("add_knowledge") => (mines \subseteq board /\ safes \cap board = {})

\* A call has returned with both a mine and a safe cell deduced by propagation.
C1_Witness ==
    /\ Returned("add_knowledge")
    /\ mines # {}
    /\ safes \ moves_made # {}

\* C2: when add_knowledge returns, every cell of every sentence whose count
\* equals the size of its cell set is in mines (mines are marked whether or
\* not the pass found a safe cell).
C2_MinesMarkedAtReturn ==
    Returned("add_knowledge") =>
        \A n \in DOMAIN knowledge :
            knowledge[n].count = Cardinality(knowledge[n].cells)
                => knowledge[n].cells \subseteq mines

\* C3: when add_knowledge returns, every cell of every sentence whose count
\* is 0 is in safes, and no sentence with count 0 has a cell left.
C3_SafesMarkedAtReturn ==
    Returned("add_knowledge") =>
        \A n \in DOMAIN knowledge :
            knowledge[n].count = 0
                => (knowledge[n].cells \subseteq safes /\ knowledge[n].cells = {})

\* The call built a sentence with count 0 over cells not yet known, and they
\* are all in safes at its return.
C3_Witness ==
    /\ Returned("add_knowledge")
    /\ BuiltSentence.count = 0
    /\ BuiltSentence.cells # {}
    /\ BuiltSentence.cells \subseteq safes

\* C4: termination. Every running call of add_knowledge / clean_knowledge
\* returns.
C4_Termination == (pc # "idle") ~> (pc = "idle")

\* A call has returned after passes that marked mines and appended sentences.
C4_Witness ==
    /\ Returned("add_knowledge")
    /\ mines # pre.mines
    /\ safes # pre.safes \cup {arg[1]}

\* C5: a repeated add_knowledge on a cell of moves_made leaves the sentence
\* collection unchanged (no duplicate sentence).
C5_RepeatKeepsSentences ==
    (Returned("add_knowledge") /\ repeat) => knowledge = pre.knowledge

\* C6: a repeated add_knowledge on a cell of moves_made leaves mines, safes
\* and moves_made as they were before the call.
C6_RepeatKeepsFacts ==
    (Returned("add_knowledge") /\ repeat) =>
        (mines = pre.mines /\ safes = pre.safes /\ moves_made = pre.moves_made)

\* A repeated call has returned, in a knowledge base that holds a sentence
\* disclosing a mine that is not marked yet.
C6_Witness ==
    /\ Returned("add_knowledge")
    /\ repeat
    /\ knowledge # <<>>
    /\ CollectMines(knowledge) # {}

\* C7: clean_knowledge called right after add_knowledge has returned changes
\* neither mines, nor safes, nor the sentence collection.
C7_Idempotence ==
    Returned("clean_knowledge") =>
        (mines = pre.mines /\ safes = pre.safes /\ knowledge = pre.knowledge)

\* C8: when add_knowledge returns, no sentence of the collection has an empty
\* cell set.
C8_NoEmptySentence ==
    Returned("add_knowledge") =>
        \A n \in DOMAIN knowledge : knowledge[n].cells # {}

\* C9: mines and safes are disjoint after every add_knowledge call.
C9_Disjoint == Returned("add_knowledge") => mines \cap safes = {}

\* A call has returned with cells in both sets.
C9_Witness ==
    /\ Returned("add_knowledge")
    /\ mines # {}
    /\ safes # {}
    /\ calls = MaxCalls

\* C10: at every point, every sentence of the collection has
\* 0 <= count <= |cells|.
C10_CountInRange ==
    \A n \in DOMAIN knowledge :
        /\ 0 <= knowledge[n].count
        /\ knowledge[n].count <= Cardinality(knowledge[n].cells)

\* Inside a pass, between two mark_safe steps, after an earlier pass of the
\* same call has appended a derived sentence that still has its cells.
C10_Witness ==
    /\ pc = "mark_safe"
    /\ pending # {}
    /\ pending # safe_cells
    /\ Len(knowledge) > Len(pre.knowledge) + 1
    /\ \E n \in DOMAIN knowledge :
           knowledge[n].count >= 1 /\ knowledge[n].cells # {}

\* C11: subset resolution. When add_knowledge returns, for every two
\* sentences A and B of the collection with A.cells a strict subset of
\* B.cells, the sentence (B.cells minus A.cells, B.count minus A.count) is in
\* the collection, and no cell is marked as a mine that is not one.
C11_SubsetResolution ==
    Returned("add_knowledge") =>
        /\ \A a, b \in DOMAIN knowledge :
               (knowledge[a].cells \subseteq knowledge[b].cells
                    /\ knowledge[a].cells # knowledge[b].cells)
               => \E n \in DOMAIN knowledge :
                      /\ knowledge[n].cells = knowledge[b].cells \ knowledge[a].cells
                      /\ knowledge[n].count = knowledge[b].count - knowledge[a].count
        /\ mines \subseteq board

\* A call has returned with sentences A = 1 over two cells, B = 2 over four
\* cells, A.cells inside B.cells, and B - A = 1 in the collection, no cell of
\* A marked as a mine.
C11_Witness ==
    /\ Returned("add_knowledge")
    /\ \E a, b, n \in DOMAIN knowledge :
           /\ Cardinality(knowledge[a].cells) = 2 /\ knowledge[a].count = 1
           /\ Cardinality(knowledge[b].cells) = 4 /\ knowledge[b].count = 2
           /\ knowledge[a].cells \subseteq knowledge[b].cells
           /\ knowledge[a].cells \cap mines = {}
           /\ knowledge[n].cells = knowledge[b].cells \ knowledge[a].cells
           /\ knowledge[n].count = knowledge[b].count - knowledge[a].count

\* The running / last add_knowledge call built a sentence whose count lies
\* outside [0, |cells|].
InvalidCall ==
    /\ op = "add_knowledge"
    /\ ~(0 <= BuiltSentence.count
            /\ BuiltSentence.count <= Cardinality(BuiltSentence.cells))

\* C12: an add_knowledge call whose count, less the known mines around the
\* cell, lies outside [0, number of unknown neighbours] is rejected: no
\* sentence with a count outside [0, |cells|] is stored.
C12_InvalidRejected ==
    InvalidCall =>
        \A n \in DOMAIN knowledge :
            /\ 0 <= knowledge[n].count
            /\ knowledge[n].count <= Cardinality(knowledge[n].cells)

\* C13: make_safe_move returns a cell of safes that is not in moves_made
\* whenever there is one, None exactly when there is none, and leaves mines,
\* safes, moves_made and the sentences unchanged.
C13_SafeMove ==
    Returned("make_safe_move") =>
        /\ (ret # None => (ret \in safes /\ ret \notin moves_made))
        /\ (ret = None <=> safes \ moves_made = {})
        /\ Snapshot = pre

\* make_safe_move has returned an unvisited safe cell while other safe cells
\* are visited.
C13_Witness ==
    /\ Returned("make_safe_move")
    /\ ret \in safes \ moves_made
    /\ moves_made # {}

\* C14: make_random_move returns a cell of the board that is neither in
\* moves_made nor in mines whenever there is one, and None exactly when
\* moves_made and mines cover the board.
C14_RandomMove ==
    Returned("make_random_move") =>
        /\ (ret # None => (ret \in Cells /\ ret \notin moves_made /\ ret \notin mines))
        /\ (ret = None <=> Cells \subseteq moves_made \cup mines)

\* make_random_move has returned None on a board with a known mine, every
\* other cell visited.
C14_Witness ==
    /\ Returned("make_random_move")
    /\ ret = None
    /\ mines # {}
    /\ moves_made = Cells \ mines

\* C15: monotonicity. No step of add_knowledge and no call of make_safe_move
\* or make_random_move removes a cell from mines, safes or moves_made.
C15_Monotonic ==
    [][/\ mines \subseteq mines'
       /\ safes \subseteq safes'
       /\ moves_made \subseteq moves_made']_vars

\* An add_knowledge call has returned with all three sets grown, and a move
\* has been asked for after it.
C15_Witness ==
    /\ Returned("make_safe_move")
    /\ calls = MaxWideCalls
    /\ mines # {}
    /\ safes # moves_made

\* C16: the call step of add_knowledge(cell, count) appends one sentence: its
\* cells are the cells of the board within one row and one column of cell,
\* cell excluded, that are in none of mines, safes and moves_made, and its
\* count is count less the number of such neighbours in mines. It is appended
\* also when it has no cell.
C16_BuiltSentence ==
    [][(pc = "idle" /\ pc' = "pass" /\ op' = "add_knowledge") =>
        LET cell == arg'[1]
            around == (((cell[1] - 1) .. (cell[1] + 1)) \X ((cell[2] - 1) .. (cell[2] + 1)))
                          \cap (Cells \ {cell})
            last == knowledge'[Len(knowledge')]
        IN  /\ Len(knowledge') = Len(knowledge) + 1
            /\ last.cells = around \ (mines' \cup safes' \cup moves_made')
            /\ last.count = arg'[2] - Cardinality(around \cap mines')]_vars

\* The call step has just appended a sentence without cells, for a cell with a
\* known mine next to it.
C16_Witness ==
    /\ pc = "pass"
    /\ op = "add_knowledge"
    /\ ~made_changes
    /\ Len(knowledge) = 1
    /\ knowledge[1].cells = {}
    /\ Neighbors(arg[1]) \cap mines # {}

\* C17: when add_knowledge returns, no sentence holds a cell of mines, safes
\* or moves_made.
C17_Purged ==
    Returned("add_knowledge") =>
        \A n \in DOMAIN knowledge :
            knowledge[n].cells \cap (mines \cup safes \cup moves_made) = {}

\* A call has returned that found new safe cells, and a sentence of before
\* the call is still in the collection without the ones it held.
C17_Witness ==
    /\ Returned("add_knowledge")
    /\ \E n \in DOMAIN knowledge, m \in DOMAIN pre.knowledge :
           /\ knowledge[n].cells # {}
           /\ knowledge[n].cells \subseteq pre.knowledge[m].cells
           /\ pre.knowledge[m].cells \ knowledge[n].cells # {}
           /\ pre.knowledge[m].cells \ knowledge[n].cells
                  \subseteq safes \ (pre.safes \cup {arg[1]})

\* C18: at every point every sentence is true of the board: its count is the
\* number of mines among its cells. So sentences over the same cells have the
\* same count, and no sentence without cells has a count other than 0.
C18_SentencesTrue ==
    /\ \A n \in DOMAIN knowledge :
           knowledge[n].count = Cardinality(knowledge[n].cells \cap board)
    /\ \A n, m \in DOMAIN knowledge :
           knowledge[n].cells = knowledge[m].cells
               => knowledge[n].count = knowledge[m].count
    /\ \A n \in DOMAIN knowledge :
           knowledge[n].cells = {} => knowledge[n].count = 0

\* Inside a pass, right after the subset loop has appended a sentence that
\* holds the mine.
C18_Witness ==
    /\ pc = "subset"
    /\ j > 1
    /\ knowledge # <<>>
    /\ knowledge[Len(knowledge)].count >= 1
    /\ knowledge[Len(knowledge)].cells # {}

====
